---- MODULE Spec2Model ----
(***************************************************************************)
(* CampusPulse (src/app/main.py): the two periodic reminder jobs           *)
(* send_daily_emails and send_return_reminders, the two dedup tables       *)
(* email_notifications and reminder_logs, and the email service they       *)
(* deliver to.                                                             *)
(*                                                                         *)
(* Time is counted in minutes of civil (Europe/Berlin) time since 00:00 of *)
(* day 0.  A Python datetime is a record [isNone, min, aware]: `aware`     *)
(* tells whether it carries a tzinfo, because Python refuses to order an   *)
(* offset-naive against an offset-aware datetime (TypeError).              *)
(*                                                                         *)
(* A job invocation runs in a lane (Slots).  APScheduler runs one instance *)
(* of a job at a time, but every server process starts its own scheduler   *)
(* (on_startup), so invocations of the same job overlap across processes.  *)
(* The steps of an invocation are cut where it reads or writes what        *)
(* another invocation can see: the dedup SELECT, the send, the INSERT.     *)
(***************************************************************************)
EXTENDS Integers, Sequences, FiniteSets, TLC

\* ---------------------------------------------------------------- bounds
NumUsers == 2
MaxRuns == 2
MaxTimeLen == 5
MaxIdLen == 2
MaxCands == 2
MaxStarts == 2
MaxTests == 1

Users == 1..NumUsers
Slots == {"p1", "p2"}
Kinds == {"daily", "return"}
Mails == Kinds \cup {"test"}

\* ------------------------------------------------------ program constants
MinutesPerDay == 1440
WindowLead == 30
WindowWidth == 5

\* ------------------------------------------------------------------ time
Clock(d, h, m) == d * MinutesPerDay + h * 60 + m

\* datetime.date(): the civil day a minute count falls on.
DateOf(t) == t \div MinutesPerDay

\* The instants at which the model lets the clock stand.
Instants ==
    { Clock(0, 13, 30), Clock(0, 13, 31), Clock(0, 13, 36), Clock(1, 13, 31) }

Days == { DateOf(t) : t \in Instants }

None == [isNone |-> TRUE]
Naive(t) == [isNone |-> FALSE, min |-> t, aware |-> FALSE]
Aware(t) == [isNone |-> FALSE, min |-> t, aware |-> TRUE]

\* datetime - timedelta / datetime + timedelta: the tzinfo is kept.
DtShift(dt, minutes) == [dt EXCEPT !.min = dt.min + minutes]

\* datetime.__le__: ordering a naive against an aware datetime raises.
DtLe(a, b) ==
    IF a.aware # b.aware THEN "TypeError"
    ELSE IF a.min <= b.min THEN "True" ELSE "False"

\* ------------------------------------------------------- Python values
\* A str is the sequence of its characters, a number is not a str, and
\* None stands for both a missing key and a null (dict.get gives None for
\* either).
Str(chars) == [isNone |-> FALSE, isStr |-> TRUE, chars |-> chars]
Num(n) == [isNone |-> FALSE, isStr |-> FALSE, num |-> n]

\* What a call does: it returns a value or raises.
Returned(v) == [raised |-> "none", value |-> v]
Raised(e) == [raised |-> e, value |-> None]

Digits == << "0", "1", "2", "3", "4", "5", "6", "7", "8", "9" >>

\* str.isdigit(): non-empty and every character a digit.
isdigit(chars) ==
    /\ chars # << >>
    /\ \A i \in 1..Len(chars) : \E d \in 1..Len(Digits) : Digits[d] = chars[i]

\* str.split(sep): the pieces between the separators, empty pieces kept.
RECURSIVE split(_, _)
split(chars, sep) ==
    IF \A i \in 1..Len(chars) : chars[i] # sep
    THEN << chars >>
    ELSE LET at == CHOOSE i \in 1..Len(chars) :
                      /\ chars[i] = sep
                      /\ \A j \in 1..(i - 1) : chars[j] # sep
         IN  << SubSeq(chars, 1, at - 1) >>
                 \o split(SubSeq(chars, at + 1, Len(chars)), sep)

\* int(str) for text made of digits and other characters (no sign, blank
\* or underscore is among the characters the model feeds it): the decimal
\* value, or ValueError.
RECURSIVE DecimalValue(_)
DecimalValue(chars) ==
    IF chars = << >> THEN 0
    ELSE LET last == chars[Len(chars)]
             d == CHOOSE k \in 1..Len(Digits) : Digits[k] = last
         IN  10 * DecimalValue(SubSeq(chars, 1, Len(chars) - 1)) + (d - 1)

int(chars) ==
    IF isdigit(chars) THEN Returned(DecimalValue(chars)) ELSE Raised("ValueError")

\* datetime(year, month, day, hh, mm, tzinfo=TZ): ValueError unless
\* 0 <= hh <= 23 and 0 <= mm <= 59.
datetime_new(day, hh, mm) ==
    IF hh \in 0..23 /\ mm \in 0..59
    THEN Returned(Aware(Clock(day, hh, mm)))
    ELSE Raised("ValueError")

\* lines 584-585: `target = datetime(now.year, now.month, now.day, hh, mm, tzinfo=TZ)`
build_target(day, hh, mm) == datetime_new(day, hh, mm)

\* The offset with its sign turned round.
arrival_offset_swapped(timing_pref) == IF timing_pref = "later" THEN -10 ELSE 10

\* line 586: `offset = 10 if timing_pref == "later" else -10`
arrival_offset(timing_pref) == IF timing_pref = "later" THEN 10 ELSE -10

\* lines 577-587.  Only the split and the two int() calls sit inside the
\* try; the datetime is built after it.
build_arrival_datetime(arrival_time_str, timing_pref, nw) ==
    IF arrival_time_str.isNone \/ arrival_time_str.chars = << >>
    THEN Returned(None)
    ELSE LET parts == split(arrival_time_str.chars, ":")
         IN  IF \/ Len(parts) # 2
                \/ \E i \in 1..Len(parts) : int(parts[i]).raised # "none"
             THEN Returned(None)
             ELSE LET hh == int(parts[1]).value
                      mm == int(parts[2]).value
                      target == build_target(DateOf(nw), hh, mm)
                  IN  IF target.raised # "none" THEN target
                      ELSE Returned(DtShift(target.value,
                                            arrival_offset(timing_pref)))

\* --------------------------------------------------- location resolution
\* A text the code only passes on (a query, a name); "" is falsy.
Text(t) == [isNone |-> FALSE, text |-> t]

\* A coordinate pair, a candidate's nested `location` or `station` dict.
LatLon(lat, lon) == [isNone |-> FALSE, lat |-> lat, lon |-> lon]
Nested(latlon) == [isNone |-> FALSE, latlon |-> latlon]
Station(id) == [isNone |-> FALSE, id |-> id]

\* A candidate of the transit search: `latlon` stands for the top-level
\* latitude/longitude keys, `location` for the nested dict.
Item(name, ibnr, id, station, latlon, location) ==
    [name |-> name, ibnr |-> ibnr, id |-> id, station |-> station,
     latlon |-> latlon, location |-> location]

\* lines 481-489
extract_coords(item) ==
    IF ~item.latlon.isNone THEN item.latlon
    ELSE IF ~item.location.isNone /\ ~item.location.latlon.isNone
    THEN item.location.latlon
    ELSE None

\* lines 495-499: `last = val.split(":")[-1]; return last or None`
pick_id(val) ==
    IF val.isNone \/ ~val.isStr THEN None
    ELSE IF val.chars = << >> THEN None
    ELSE LET parts == split(val.chars, ":")
             last == parts[Len(parts)]
         IN  IF last = << >> THEN None ELSE Str(last)

\* lines 500-510 with `id` tried before `ibnr`.
normalize_stop_id_id_first(item) ==
    LET ibnr == pick_id(item.ibnr)
        sid == pick_id(item.id)
        station == pick_id(IF item.station.isNone THEN None ELSE item.station.id)
    IN  IF ~sid.isNone /\ isdigit(sid.chars) THEN sid
        ELSE IF ~ibnr.isNone /\ isdigit(ibnr.chars) THEN ibnr
        ELSE IF ~station.isNone /\ isdigit(station.chars) THEN station
        ELSE None

\* lines 492-510 (an empty item has no field and gives None either way)
normalize_stop_id(item) ==
    LET ibnr == pick_id(item.ibnr)
        sid == pick_id(item.id)
        station == pick_id(IF item.station.isNone THEN None ELSE item.station.id)
    IN  IF ~ibnr.isNone /\ isdigit(ibnr.chars) THEN ibnr
        ELSE IF ~sid.isNone /\ isdigit(sid.chars) THEN sid
        ELSE IF ~station.isNone /\ isdigit(station.chars) THEN station
        ELSE None

\* `x.get("name") or query`
NameOr(name, query) ==
    IF name.isNone \/ name.text = "" THEN query ELSE name

Location(id, name, coords) == [id |-> id, name |-> name, coords |-> coords]

First(indices) == CHOOSE i \in indices : \A j \in indices : i <= j

\* One loop that takes the first candidate with an id or a coordinate.
pick_candidate_one_loop(items) ==
    LET usable == { i \in 1..Len(items) :
                       \/ ~normalize_stop_id(items[i]).isNone
                       \/ ~extract_coords(items[i]).isNone }
    IN  IF usable = {} THEN 0 ELSE First(usable)

\* lines 515-523: the first candidate with a stop id, else the first with a
\* coordinate; 0 when both loops fall through.
pick_candidate(items) ==
    LET with_id == { i \in 1..Len(items) : ~normalize_stop_id(items[i]).isNone }
        with_coords == { i \in 1..Len(items) : ~extract_coords(items[i]).isNone }
    IN  IF with_id # {} THEN First(with_id)
        ELSE IF with_coords # {} THEN First(with_coords)
        ELSE 0

\* The geocoder's first match taken without the test for an empty answer.
geocode_location_no_empty_test(query, data) ==
    IF data = << >> THEN Location(None, query, LatLon(0, 0))
    ELSE Location(None, NameOr(data[1].display_name, query),
                  LatLon(data[1].lat, data[1].lon))

\* lines 533-541
geocode_location(query, data) ==
    IF data = << >> THEN Location(None, query, None)
    ELSE Location(None, NameOr(data[1].display_name, query),
                  LatLon(data[1].lat, data[1].lon))

\* lines 513-541.  `locations` is what bvg_get("/locations") does and
\* `geocode` what the Nominatim request does: each returns a list or
\* raises.  `calls` lists the services asked.
resolve_location(query, locations, geocode) ==
    IF locations.raised # "none"
    THEN [raised |-> locations.raised, value |-> None, calls |-> << "bvg" >>]
    ELSE LET items == locations.value
             at == pick_candidate(items)
         IN  IF at # 0
             THEN [raised |-> "none",
                   value |-> Location(normalize_stop_id(items[at]),
                                      NameOr(items[at].name, query),
                                      extract_coords(items[at])),
                   calls |-> << "bvg" >>]
             ELSE IF geocode.raised # "none"
             THEN [raised |-> geocode.raised, value |-> None,
                   calls |-> << "bvg", "geocode" >>]
             ELSE [raised |-> "none",
                   value |-> geocode_location(query, geocode.value),
                   calls |-> << "bvg", "geocode" >>]

\* ---------------------------------------------------------------- routing
Journey(legs) == [isNone |-> FALSE, legs |-> legs]
Prefs(arrival_time, timing_pref) ==
    [arrival_time |-> arrival_time, timing_pref |-> timing_pref]

\* The routing request: by the two stop ids or by the two coordinates, with
\* the arrival constraint or None.
Request(mode, from, to, arrival) ==
    [isNone |-> FALSE, mode |-> mode, from |-> from, to |-> to, arrival |-> arrival]

\* What build_journey does: it returns or raises, having sent `request`
\* (None when it sent none).
Routed(raised, value, request) ==
    [raised |-> raised, value |-> value, request |-> request]

\* The first itinerary taken without the test for an empty list.
first_journey_no_empty_test(journeys) ==
    IF journeys = << >> THEN Raised("IndexError") ELSE Returned(journeys[1])

\* lines 671-674: `journeys = data.get("journeys") or []`, None when empty,
\* else journeys[0]
first_journey(journeys) ==
    IF journeys = << >> THEN Returned(None) ELSE Returned(journeys[1])

\* lines 648-674.  `journeys` is what bvg_get("/journeys") does: it returns
\* the itineraries or raises.
build_journey(origin, destination, prefs, journeys, nw) ==
    LET by_id == ~origin.id.isNone /\ ~destination.id.isNone
    IN  IF ~by_id /\ (origin.coords.isNone \/ destination.coords.isNone)
        THEN Routed("none", None, None)
        ELSE LET arrival == build_arrival_datetime(prefs.arrival_time,
                                                   prefs.timing_pref, nw)
                 request == IF by_id
                            THEN Request("id", origin.id, destination.id,
                                         arrival.value)
                            ELSE Request("coords", origin.coords,
                                         destination.coords, arrival.value)
             IN  IF arrival.raised # "none"
                 THEN Routed(arrival.raised, None, None)
                 ELSE IF journeys.raised # "none"
                 THEN Routed(journeys.raised, None, request)
                 ELSE LET first == first_journey(journeys.value)
                      IN  Routed(first.raised, first.value, request)

\* lines 600-630: the email has a route section only `if journey`.
build_journey_email(journey) ==
    IF journey.isNone THEN "classes" ELSE "classes+route"

\* What the routing part of one loop iteration meets: whether the
\* preferences row has a home_location, the answers of the transit search
\* and the geocoder for the home and for the campus, the arrival_time
\* preference, the answer of the routing request.
Scenario(home_location, home, home_geocode, campus, campus_geocode, arrival_time, journeys) ==
    [home_location |-> home_location,
     home |-> home, home_geocode |-> home_geocode,
     campus |-> campus, campus_geocode |-> campus_geocode,
     prefs |-> Prefs(arrival_time, "earlier"), journeys |-> journeys]

StopItem ==
    Item(Text("Alexanderplatz"), None, Str(<< "9" >>), None,
         None, Nested(LatLon(1, 1)))
AddressItem ==
    Item(Text("Am Jungfernsee 1"), None, None, None, LatLon(2, 2), None)
OneStop == Returned(<< StopItem >>)
OneAddress == Returned(<< AddressItem >>)
Nothing == Returned(<< >>)
OneJourney == Returned(<< Journey("S7") >>)

RouteScenarios ==
    { \* no home_location
      Scenario(FALSE, Nothing, Nothing, Nothing, Nothing, None, Nothing),
      \* the transit search for the home fails
      Scenario(TRUE, Raised("HTTPException"), Nothing, OneStop, Nothing, None, OneJourney),
      \* two stops, one itinerary
      Scenario(TRUE, OneStop, Nothing, OneStop, Nothing, None, OneJourney),
      \* two stops, no itinerary
      Scenario(TRUE, OneStop, Nothing, OneStop, Nothing, None, Nothing),
      \* the home is found by nobody
      Scenario(TRUE, Nothing, Nothing, OneStop, Nothing, None, OneJourney),
      \* the campus is found by nobody
      Scenario(TRUE, OneStop, Nothing, Nothing, Nothing, None, OneJourney),
      \* an address and a stop: routed by coordinates
      Scenario(TRUE, OneAddress, Nothing, OneStop, Nothing, None, OneJourney),
      \* arrival_time "25:00"
      Scenario(TRUE, OneStop, Nothing, OneStop, Nothing,
               Str(<< "2", "5", ":", "0", "0" >>), OneJourney),
      \* the routing request fails
      Scenario(TRUE, OneStop, Nothing, OneStop, Nothing, None, Raised("HTTPException")) }

\* ------------------------------------------------------------- the state
VARIABLES
    now,                  \* the wall clock as last read, minutes since day 0 00:00
    classes,              \* classes table: user -> set of [start_time, end_time]
    brevo_configured,     \* BREVO_API_KEY and BREVO_SENDER_EMAIL are both set
    email_notifications,  \* table rows, in insertion order
    reminder_logs,        \* table rows, in insertion order
    outbox,               \* emails the email service accepted, per (user, day, kind)
    inv,                  \* the job invocation in each lane
    runs,                 \* invocations started so far
    call,                 \* the latest call of a helper function: arguments and result
    _scheduler,           \* the process-wide handle: None, or an index into schedulers
    schedulers            \* the BackgroundScheduler objects created so far

jobvars == << now, classes, brevo_configured,
              email_notifications, reminder_logs, outbox, inv, runs,
              _scheduler, schedulers >>

vars == << jobvars, call >>

NoCall == [fn |-> "none"]

\* The class sets a user may have: timestamps are TIMESTAMP columns, naive.
ClassOptions ==
    { {},
      { [start_time |-> Clock(0, 12, 0), end_time |-> Clock(0, 14, 0)],
        [start_time |-> Clock(1, 12, 0), end_time |-> Clock(1, 14, 0)] } }

Idle ==
    [job |-> "none", pc |-> "idle", today |-> 0, started |-> 0,
     users |-> << >>, idx |-> 1, exc |-> "none",
     journey |-> "None", route |-> "none", html |-> "none", calls |-> {}, had |-> {},
     ev |-> [u \in Users |-> {}]]

Init ==
    /\ now = Clock(0, 13, 30)
    /\ classes \in [Users -> ClassOptions]
    /\ brevo_configured \in BOOLEAN
    /\ email_notifications = << >>
    /\ reminder_logs = << >>
    /\ outbox = [k \in Users \X Days \X Mails |-> 0]
    /\ inv = [s \in Slots |-> Idle]
    /\ runs = 0
    /\ call = NoCall
    /\ _scheduler = None
    /\ schedulers = << >>

\* ------------------------------------------------------------ the queries
Max(S) == CHOOSE x \in S : \A y \in S : y <= x

\* SELECT id, email FROM users: the rows in the order the table is scanned.
\* Init gives every user every class option, so the users are interchangeable
\* and the scan order is taken to be the order of the ids.
UserRows == [i \in 1..NumUsers |-> i]

\* classes_for_day: the classes whose start_time lies in [day 00:00, day 23:59:59.999999].
classes_for_day(user_id, day) ==
    { c \in classes[user_id] :
        /\ c.start_time >= Clock(day, 0, 0)
        /\ c.start_time <= Clock(day, 23, 59) }

\* last_class_end: MAX(end_time) over the classes ending on that day, a naive
\* datetime (the column is TIMESTAMP), or None when there is none.
last_class_end(user_id, day) ==
    LET ends == { c.end_time : c \in
                    { c \in classes[user_id] :
                        /\ c.end_time >= Clock(day, 0, 0)
                        /\ c.end_time <= Clock(day, 23, 59) } }
    IN  IF ends = {} THEN None ELSE Naive(Max(ends))

\* A dedup check that finds nothing, whatever the table holds.
already_daily_unchecked(user_id, day) == FALSE

\* The daily dedup check reading the other job's table.
already_daily_in_reminder_logs(user_id, day) ==
    \E i \in 1..Len(reminder_logs) :
        reminder_logs[i] = [user_id |-> user_id, send_date |-> day, kind |-> "return"]

\* A dedup check that takes a test email for the digest.
already_daily_or_tested(user_id, day) ==
    \/ outbox[<<user_id, day, "test">>] >= 1
    \/ \E i \in 1..Len(email_notifications) :
          email_notifications[i] = [user_id |-> user_id, send_date |-> day]

\* A dedup check that also knows what the email service has accepted.
already_daily_or_mailed(user_id, day) ==
    \/ outbox[<<user_id, day, "daily">>] >= 1
    \/ \E i \in 1..Len(email_notifications) :
          email_notifications[i] = [user_id |-> user_id, send_date |-> day]

\* SELECT 1 FROM email_notifications WHERE user_id = .. AND send_date = ..
already_daily(user_id, day) ==
    \E i \in 1..Len(email_notifications) :
        email_notifications[i] = [user_id |-> user_id, send_date |-> day]

\* SELECT 1 FROM reminder_logs WHERE user_id = .. AND send_date = .. AND kind = ..
already_reminded(user_id, day, kind) ==
    \E i \in 1..Len(reminder_logs) :
        reminder_logs[i] = [user_id |-> user_id, send_date |-> day, kind |-> kind]

\* A table without the unique constraint: every INSERT goes through.
DailyInsertUnconstrained(table, row) == TRUE

\* UNIQUE (user_id, send_date) of email_notifications: the INSERT is refused
\* when a row with the key is there.
DailyInsertAllowed(table, row) ==
    \A i \in 1..Len(table) : table[i] # row

\* --------------------------------------------------- a job invocation
Finished(r) == r.pc \in {"idle", "done", "raised"}

\* The slots are lanes for concurrent invocations, not processes: an
\* invocation takes the second lane only while the first is busy.
MayStart(s) ==
    /\ Finished(inv[s])
    /\ s = "p2" => ~Finished(inv["p1"])
    /\ runs < MaxRuns

CurUser(r) == r.users[r.idx]

Note(r, e) == [r EXCEPT !.ev[CurUser(r)] = @ \cup {e}]

\* `continue`, or the end of the loop body: on to the next user, and out of
\* the loop (and the connection block) after the last one.
NextUser(r, loop) ==
    IF r.idx >= Len(r.users)
    THEN [r EXCEPT !.pc = "done", !.idx = r.idx + 1,
                   !.journey = "None", !.route = "none", !.html = "none"]
    ELSE [r EXCEPT !.pc = loop, !.idx = r.idx + 1,
                   !.journey = "None", !.route = "none", !.html = "none"]

\* An exception nobody catches leaves the job function: the invocation is over.
Raise(r, e) == [r EXCEPT !.pc = "raised", !.exc = e]

\* `journey` and `html` are locals of the loop body, and `route` tells how
\* the journey came about.  `calls`, `had` and `ev` observe the invocation
\* and steer nothing: the external services its latest step has called, the
\* users whose dedup record for today was there when the invocation
\* started, and what it has done for each user so far.
Begin(job, loop, t, at) ==
    [job |-> job, pc |-> loop, today |-> DateOf(t), started |-> at,
     users |-> UserRows, idx |-> 1, exc |-> "none",
     journey |-> "None", route |-> "none", html |-> "none", calls |-> {},
     had |-> { u \in Users :
                IF job = "daily" THEN already_daily(u, DateOf(t))
                ELSE already_reminded(u, DateOf(t), "return") },
     ev |-> [u \in Users |-> {}]]

\* ------------------------------------------------------ send_daily_emails
\* lines 678-682: today (the clock, read at some instant not before the
\* last reading), and the users.
DailyStart(s) ==
    /\ MayStart(s)
    /\ \E t \in Instants :
          /\ t >= now
          /\ now' = t
          /\ inv' = [inv EXCEPT ![s] = Begin("daily", "d_loop", t, 0)]
    /\ runs' = runs + 1
    /\ UNCHANGED << _scheduler, schedulers, call, classes, brevo_configured,
                    email_notifications, reminder_logs, outbox >>

\* The empty-day test left out.
DailyNeverSkipsClasses(todays) == FALSE

\* line 696: `if not classes: continue`
DailySkipsClasses(todays) == todays = {}

\* lines 701-703 raise (bvg_get's HTTPException, the geocoder's httpx error,
\* the datetime constructor's ValueError): send_daily_emails has no try
\* around them.
DailyRouteRaised(r, e) ==
    Raise([Note(r, "route_raised") EXCEPT !.calls = {"bvg"}], e)

\* The services resolve_location asked.
Services(resolved) == { resolved.calls[i] : i \in 1..Len(resolved.calls) }

\* lines 698-704: journey = None; with a home location, both resolutions and
\* build_journey, each of which can raise; then the email is rendered.
\* `route`: no home location ("no_home"), an endpoint with neither id nor
\* coordinate ("unresolved"), no request for another reason ("no_request"),
\* a request answered with no itinerary ("empty") or with some ("offered").
DailyRoute(r, sc) ==
    IF ~sc.home_location
    THEN [r EXCEPT !.pc = "d_send", !.journey = "None", !.route = "no_home",
                   !.html = build_journey_email(None)]
    ELSE
    LET origin == resolve_location(Text("home"), sc.home, sc.home_geocode)
        destination == resolve_location(Text("Campus Jungfernsee"),
                                        sc.campus, sc.campus_geocode)
        routed == build_journey(origin.value, destination.value, sc.prefs,
                                sc.journeys, now)
        lost(l) == l.id.isNone /\ l.coords.isNone
    IN  IF origin.raised # "none" THEN DailyRouteRaised(r, origin.raised)
        ELSE IF destination.raised # "none"
        THEN DailyRouteRaised(r, destination.raised)
        ELSE IF routed.raised # "none" THEN DailyRouteRaised(r, routed.raised)
        ELSE [r EXCEPT
                !.pc = "d_send",
                !.journey = IF routed.value.isNone THEN "None" ELSE "journey",
                !.route = IF lost(origin.value) \/ lost(destination.value)
                          THEN "unresolved"
                          ELSE IF routed.request.isNone THEN "no_request"
                          ELSE IF routed.value.isNone THEN "empty"
                          ELSE "offered",
                !.html = build_journey_email(routed.value),
                !.calls = Services(origin) \cup Services(destination)
                            \cup (IF routed.request.isNone THEN {} ELSE {"bvg"})]

\* lines 684-704: the dedup check, the preferences, the classes of today,
\* the journey.  user_preferences belongs to the preferences endpoints:
\* whether the row read at line 694 has a home_location is an input of the
\* step, and so is the outcome of the HTTP calls.  Nothing between the
\* SELECTs and the send touches the tables, so the step runs up to the send.
DailyCheck(s) ==
    LET r == [inv[s] EXCEPT !.calls = {}]
        u == CurUser(r)
    IN  /\ r.pc = "d_loop"
        /\ IF already_daily(u, r.today)
           THEN inv' = [inv EXCEPT ![s] = NextUser(Note(r, "already"), "d_loop")]
           ELSE IF DailySkipsClasses(classes_for_day(u, r.today))
           THEN inv' = [inv EXCEPT ![s] = NextUser(Note(r, "no_classes"), "d_loop")]
           ELSE \E sc \in RouteScenarios :
                  inv' = [inv EXCEPT ![s] = DailyRoute(Note(r, "passed"), sc)]
        /\ UNCHANGED << _scheduler, schedulers, call, now, classes, brevo_configured,
                        email_notifications, reminder_logs, outbox, runs >>

\* The `continue` of the except branch left out: on to the INSERT.
DailySendFailedFallsThrough(r) == [Note(r, "send_failed") EXCEPT !.pc = "d_insert"]

\* lines 707-708: `except Exception: continue`
DailySendFailed(r) == NextUser(Note(r, "send_failed"), "d_loop")

\* lines 705-708 with send_brevo_email (633-645): without the Brevo settings
\* it returns at once; otherwise the POST is accepted or raises.
DailySend(s) ==
    LET r == IF brevo_configured
             THEN [inv[s] EXCEPT !.calls = {"brevo"}]
             ELSE [inv[s] EXCEPT !.calls = {}]
        u == CurUser(r)
    IN  /\ r.pc = "d_send"
        /\ IF ~brevo_configured
           THEN /\ inv' = [inv EXCEPT ![s] = [Note(r, "send_noop") EXCEPT !.pc = "d_insert"]]
                /\ outbox' = outbox
           ELSE \E ok \in BOOLEAN :
                  IF ok
                  THEN /\ inv' = [inv EXCEPT ![s] = [Note(r, "sent") EXCEPT !.pc = "d_insert"]]
                       /\ outbox' = [outbox EXCEPT ![<<u, r.today, "daily">>] = @ + 1]
                  ELSE /\ inv' = [inv EXCEPT ![s] = DailySendFailed(r)]
                       /\ outbox' = outbox
        /\ UNCHANGED << _scheduler, schedulers, call, now, classes, brevo_configured,
                        email_notifications, reminder_logs, runs >>

\* The row dated a day off.
DailyRowWrongDate(r) == [user_id |-> CurUser(r), send_date |-> r.today + 1]

\* lines 711-712: the row written for the user, VALUES (user_id, today).
DailyRow(r) == [user_id |-> CurUser(r), send_date |-> r.today]

\* lines 709-714: INSERT and commit; the unique violation is not caught.
DailyInsert(s) ==
    LET r == [inv[s] EXCEPT !.calls = {}]
        row == DailyRow(r)
    IN  /\ r.pc = "d_insert"
        /\ IF DailyInsertAllowed(email_notifications, row)
           THEN /\ email_notifications' = Append(email_notifications, row)
                /\ inv' = [inv EXCEPT ![s] = NextUser(Note(r, "recorded"), "d_loop")]
           ELSE /\ email_notifications' = email_notifications
                /\ inv' = [inv EXCEPT ![s] = Raise(Note(r, "insert_conflict"), "UniqueViolation")]
        /\ UNCHANGED << _scheduler, schedulers, call, now, classes, brevo_configured,
                        reminder_logs, outbox, runs >>


\* -------------------------------------------------- send_return_reminders
\* lines 746-747: target = last_end - 30min; target <= now <= target + 5min.
\* The chained comparison stops at the first False, and a comparison that
\* raises ends it.
ReturnWindow(last_end, nw) ==
    LET target == DtShift(last_end, 0 - WindowLead)
        lower  == DtLe(target, nw)
    IN  IF lower # "True" THEN lower
        ELSE DtLe(nw, DtShift(target, WindowWidth))

\* lines 734-739: now (aware: datetime.now(TZ), read at some instant not
\* before the last reading), today, and the users.
ReturnStart(s) ==
    /\ MayStart(s)
    /\ \E t \in Instants :
          /\ t >= now
          /\ now' = t
          /\ inv' = [inv EXCEPT ![s] = Begin("return", "r_loop", t, t)]
    /\ runs' = runs + 1
    /\ UNCHANGED << _scheduler, schedulers, call, classes, brevo_configured,
                    email_notifications, reminder_logs, outbox >>

\* lines 741-748: the last class end of today and the window check.  The
\* check orders last_end (naive, from a TIMESTAMP column) against now (aware),
\* so for every user with a class ending today it raises TypeError, which
\* send_return_reminders does not catch: lines 749-775 (dedup check, routing,
\* send, INSERT INTO reminder_logs) are reached by no invocation, and the
\* pc "r_dedup" that leads to them is never entered.
ReturnCheck(s) ==
    LET r == [inv[s] EXCEPT !.calls = {}]
        u == CurUser(r)
        last_end == last_class_end(u, r.today)
        inside == ReturnWindow(last_end, Aware(r.started))
    IN  /\ r.pc = "r_loop"
        /\ inv' = [inv EXCEPT ![s] =
              IF last_end.isNone
              THEN NextUser(Note(r, "no_class_ending"), "r_loop")
              ELSE IF inside = "TypeError"
              THEN Raise(Note(r, "window_raised"), "TypeError")
              ELSE IF inside = "False"
              THEN NextUser(Note(r, "outside_window"), "r_loop")
              ELSE [Note(r, "passed") EXCEPT !.pc = "r_dedup"]]
        /\ UNCHANGED << _scheduler, schedulers, call, now, classes, brevo_configured,
                        email_notifications, reminder_logs, outbox, runs >>

Next ==
    \E s \in Slots :
          \/ DailyStart(s)
          \/ DailyCheck(s)
          \/ DailySend(s)
          \/ DailyInsert(s)
          \/ ReturnStart(s)
          \/ ReturnCheck(s)

Spec == Init /\ [][Next]_vars

\* One lane only: no two invocations ever overlap.
NextSeq ==
    \/ DailyStart("p1")
    \/ DailyCheck("p1")
    \/ DailySend("p1")
    \/ DailyInsert("p1")
    \/ ReturnStart("p1")
    \/ ReturnCheck("p1")

SeqSpec == Init /\ [][NextSeq]_vars

\* lines 705-714: the invocation ends between the send and the commit of
\* the INSERT (the process is stopped, or the database connection is lost
\* and the INSERT raises): the email is out and no row is written.
DailyCrash(s) ==
    LET r == [inv[s] EXCEPT !.calls = {}]
    IN  /\ r.pc = "d_insert"
        /\ inv' = [inv EXCEPT ![s] = Raise(Note(r, "crashed"), "OperationalError")]
        /\ UNCHANGED << _scheduler, schedulers, call, now, classes, brevo_configured,
                        email_notifications, reminder_logs, outbox, runs >>

\* Invocations one after another, any of which may end that way.
NextCrash ==
    \/ DailyStart("p1")
    \/ DailyCheck("p1")
    \/ DailySend("p1")
    \/ DailyInsert("p1")
    \/ DailyCrash("p1")
    \/ ReturnStart("p1")
    \/ ReturnCheck("p1")

CrashSpec == Init /\ [][NextCrash]_vars

\* ------------------------------------------- the scheduler's life cycle
\* lines 180-181: the two jobs on_startup registers.
DailyJob ==
    [func |-> "send_daily_emails", trigger |-> "cron", hour |-> 7, minute |-> 0]

ReturnJob ==
    [func |-> "send_return_reminders", trigger |-> "interval", minutes |-> 5]

Handle(i) == [isNone |-> FALSE, index |-> i]

\* The guard left out: every on_startup builds a scheduler.
StartupAlways(handle) == TRUE

\* line 178: `if _scheduler is None:`
StartupBuilds(handle) == handle = None

\* lines 174-183: init_db, then, if the handle is None, a new scheduler gets
\* the two jobs, is started and is stored in the handle.  (init_db raising
\* leaves the handle and the schedulers as they were.)
on_startup ==
    /\ StartupBuilds(_scheduler)
    /\ Len(schedulers) < MaxStarts
    /\ schedulers' = Append(schedulers,
                            [running |-> TRUE, jobs |-> << DailyJob, ReturnJob >>])
    /\ _scheduler' = Handle(Len(schedulers) + 1)
    /\ UNCHANGED << call, now, classes, brevo_configured,
                    email_notifications, reminder_logs, outbox, inv, runs >>

\* lines 186-191: `if _scheduler:` shutdown (which waits for the job that is
\* executing) and clear the handle.
on_shutdown ==
    /\ _scheduler # None
    /\ Finished(inv["p1"])
    /\ schedulers' = [schedulers EXCEPT ![_scheduler.index].running = FALSE]
    /\ _scheduler' = None
    /\ UNCHANGED << call, now, classes, brevo_configured,
                    email_notifications, reminder_logs, outbox, inv, runs >>

\* A running scheduler of this process has the job `func` registered: only
\* then is the job function invoked.
Triggers(func) ==
    \E i \in 1..Len(schedulers) :
        /\ schedulers[i].running
        /\ \E j \in 1..Len(schedulers[i].jobs) : schedulers[i].jobs[j].func = func

\* One process through startups and shutdowns; its scheduler invokes the
\* jobs, one after another.
NextSched ==
    \/ on_startup
    \/ on_shutdown
    \/ Triggers("send_daily_emails") /\ DailyStart("p1")
    \/ DailyCheck("p1")
    \/ DailySend("p1")
    \/ DailyInsert("p1")
    \/ Triggers("send_return_reminders") /\ ReturnStart("p1")
    \/ ReturnCheck("p1")

SchedSpec == Init /\ [][NextSched]_vars

\* ------------------------------------------------- POST /api/notify/daily-test
\* The test emails the email service has accepted, counted.
TestsSent ==
    Cardinality(UNION { { << k, i >> : i \in 1..outbox[k] } :
                        k \in { k \in DOMAIN outbox : k[3] = "test" } })

\* lines 472-476: with a home location, both resolutions and build_journey
\* come back ("none") or one of them raises: HTTPException from the transit
\* search, the geocoder or the routing request (bvg_get, geocode_location),
\* ValueError from build_arrival_datetime.
TestRouteOutcomes == { "none", "HTTPException", "ValueError" }

\* lines 462-478: today from the clock; 500 without the Brevo settings; the
\* preferences and the classes of today; the route; the email rendered
\* (whether or not there is a class today) and sent.  Nothing is caught: an
\* exception of the route or of the send ends the request without an email.
\* No statement names email_notifications or reminder_logs.
notify_daily_test(u) ==
    /\ TestsSent < MaxTests
    /\ \E t \in Instants :
          /\ t >= now
          /\ now' = t
          /\ IF ~brevo_configured
             THEN outbox' = outbox
             ELSE \E raised \in TestRouteOutcomes, ok \in BOOLEAN :
                    outbox' = IF raised = "none" /\ ok
                              THEN [outbox EXCEPT ![<<u, DateOf(t), "test">>] = @ + 1]
                              ELSE outbox
    /\ UNCHANGED << _scheduler, schedulers, call, classes, brevo_configured,
                    email_notifications, reminder_logs, inv, runs >>

\* The jobs one after another, and the test endpoint called at any moment.
NextTest ==
    \/ \E u \in Users : notify_daily_test(u)
    \/ DailyStart("p1")
    \/ DailyCheck("p1")
    \/ DailySend("p1")
    \/ DailyInsert("p1")
    \/ ReturnStart("p1")
    \/ ReturnCheck("p1")

TestSpec == Init /\ [][NextTest]_vars

\* ----------------------------------------------------- the class endpoints
\* The payloads the model posts.  ClassIn (lines 194-198) takes any two
\* datetimes and the table has no CHECK: a class may end on the day after it
\* starts.
Lecture == [start_time |-> Clock(0, 12, 0), end_time |-> Clock(0, 14, 0)]
NightClass == [start_time |-> Clock(0, 23, 0), end_time |-> Clock(1, 0, 10)]
ClassPayloads == { Lecture, NightClass }

\* lines 778-799: INSERT INTO classes, commit.  (A row is told from another
\* by its times: the queries of the jobs read nothing else.)
create_class(u, payload) ==
    /\ payload \notin classes[u]
    /\ classes' = [classes EXCEPT ![u] = @ \cup {payload}]
    /\ UNCHANGED << _scheduler, schedulers, call, now, brevo_configured,
                    email_notifications, reminder_logs, outbox, inv, runs >>

\* lines 341-354: DELETE FROM classes WHERE id = .. AND user_id = ..; 404
\* when there is no such row.
delete_class(u, row) ==
    /\ row \in classes[u]
    /\ classes' = [classes EXCEPT ![u] = @ \ {row}]
    /\ UNCHANGED << _scheduler, schedulers, call, now, brevo_configured,
                    email_notifications, reminder_logs, outbox, inv, runs >>

\* A fresh database: no classes yet.
ClassInit ==
    /\ Init
    /\ classes = [u \in Users |-> {}]

\* The jobs one after another, and the users editing their classes at any
\* moment.
NextClass ==
    \/ \E u \in Users, payload \in ClassPayloads : create_class(u, payload)
    \/ \E u \in Users, row \in ClassPayloads : delete_class(u, row)
    \/ DailyStart("p1")
    \/ DailyCheck("p1")
    \/ DailySend("p1")
    \/ DailyInsert("p1")
    \/ ReturnStart("p1")
    \/ ReturnCheck("p1")

ClassSpec == ClassInit /\ [][NextClass]_vars

\* ------------------------------------------- the helper functions, called
\* The arrival_time texts the model feeds to build_arrival_datetime: every
\* text of up to MaxTimeLen of these characters.
TimeChars == { "0", "2", "3", "5", "8", ":", "x" }
TimeStrings == UNION { [1..n -> TimeChars] : n \in 0..MaxTimeLen }
TimingPrefs == { "earlier", "later" }

\* A call that has been made and has not come back yet.
Pending == [raised |-> "pending", value |-> None]

BuildArrivalDatetimeCalls ==
    { [fn |-> "build_arrival_datetime", arrival_time_str |-> a,
       timing_pref |-> pref, result |-> Pending] :
        a \in {None} \cup { Str(c) : c \in TimeStrings },
        pref \in TimingPrefs }

\* The id texts: every text of up to MaxIdLen of these characters; the
\* values of an id field: missing, a number, a text.
IdChars == { "9", ":", "a" }
IdStrings == UNION { [1..n -> IdChars] : n \in 0..MaxIdLen }
IdValues == {None, Num(9)} \cup { Str(c) : c \in IdStrings }

NormalizeStopIdCalls ==
    { [fn |-> "normalize_stop_id",
       item |-> Item(None, ibnr, id, station, None, None),
       result |-> Pending] :
        ibnr \in IdValues, id \in IdValues,
        station \in {None} \cup { Station(v) : v \in IdValues } }

\* The candidates of a transit search: a stop with id and nested
\* coordinate, a stop with an ibnr only, an address with top-level
\* coordinate, a place with an unusable id and a nested coordinate, a
\* candidate with neither; up to MaxCands of them in any order.
ItemSamples ==
    { Item(Text("Alexanderplatz"), None, Str(<< "9" >>), None,
           None, Nested(LatLon(1, 1))),
      Item(None, Str(<< "9", "9" >>), None, None, None, None),
      Item(Text("Am Jungfernsee 1"), None, None, None, LatLon(2, 2), None),
      Item(Text(""), None, Str(<< "a", "9" >>), None,
           None, Nested(LatLon(3, 3))),
      Item(Text("Nowhere"), None, Str(<< "9", ":" >>), Station(Num(9)),
           None, Nested(None)) }

CandidateLists == UNION { [1..n -> ItemSamples] : n \in 0..MaxCands }

GeocodeAnswers ==
    { Raised("HTTPStatusError"),
      Returned(<< >>),
      Returned(<< [display_name |-> Text("Potsdam, Brandenburg"), lat |-> 4, lon |-> 4] >>),
      Returned(<< [display_name |-> None, lat |-> 5, lon |-> 5] >>) }

ResolveLocationCalls ==
    { [fn |-> "resolve_location", query |-> Text("home"),
       locations |-> l, geocode |-> g, result |-> Pending] :
        l \in {Raised("HTTPException")} \cup { Returned(c) : c \in CandidateLists },
        g \in GeocodeAnswers }

\* The endpoints build_journey is given: with or without a stop id, with or
\* without a coordinate; the arrival_time preference absent, valid, or with
\* an hour out of range; the routing service failing or answering with no,
\* one or two itineraries.
Endpoints(id, coords) ==
    { Location(i, Text("place"), c) : i \in {None, id}, c \in {None, coords} }

BuildJourneyCalls ==
    { [fn |-> "build_journey", origin |-> o, destination |-> d,
       prefs |-> Prefs(a, pref), journeys |-> j, result |-> Pending] :
        o \in Endpoints(Str(<< "9" >>), LatLon(1, 1)),
        d \in Endpoints(Str(<< "9", "9" >>), LatLon(2, 2)),
        a \in { None, Str(<< "0", "8", ":", "3", "0" >>),
                Str(<< "2", "5", ":", "0", "0" >>) },
        pref \in TimingPrefs,
        j \in { Raised("HTTPException"), Returned(<< >>),
                Returned(<< Journey("S7") >>),
                Returned(<< Journey("S7"), Journey("RE1") >>) } }

PureInit ==
    /\ call \in BuildArrivalDatetimeCalls \cup NormalizeStopIdCalls
                    \cup ResolveLocationCalls \cup BuildJourneyCalls
    /\ now \in IF call.fn = "build_arrival_datetime"
                THEN Instants ELSE { Clock(0, 13, 30) }
    /\ classes = [u \in Users |-> {}]
    /\ brevo_configured = TRUE
    /\ email_notifications = << >>
    /\ reminder_logs = << >>
    /\ outbox = [t \in Users \X Days \X Mails |-> 0]
    /\ inv = [s \in Slots |-> Idle]
    /\ runs = 0
    /\ _scheduler = None
    /\ schedulers = << >>

CallBuildArrivalDatetime ==
    /\ call.fn = "build_arrival_datetime"
    /\ call.result = Pending
    /\ call' = [call EXCEPT !.result =
                   build_arrival_datetime(call.arrival_time_str,
                                          call.timing_pref, now)]
    /\ UNCHANGED jobvars

CallNormalizeStopId ==
    /\ call.fn = "normalize_stop_id"
    /\ call.result = Pending
    /\ call' = [call EXCEPT !.result = Returned(normalize_stop_id(call.item))]
    /\ UNCHANGED jobvars

CallResolveLocation ==
    /\ call.fn = "resolve_location"
    /\ call.result = Pending
    /\ call' = [call EXCEPT !.result =
                   resolve_location(call.query, call.locations, call.geocode)]
    /\ UNCHANGED jobvars

CallBuildJourney ==
    /\ call.fn = "build_journey"
    /\ call.result = Pending
    /\ call' = [call EXCEPT !.result =
                   build_journey(call.origin, call.destination, call.prefs,
                                 call.journeys, now)]
    /\ UNCHANGED jobvars

PureNext ==
    \/ CallBuildArrivalDatetime
    \/ CallNormalizeStopId
    \/ CallResolveLocation
    \/ CallBuildJourney

PureSpec == PureInit /\ [][PureNext]_vars

\* ================================================================ claims
DailyRows(u, d) ==
    { i \in 1..Len(email_notifications) :
        email_notifications[i] = [user_id |-> u, send_date |-> d] }

ReminderRows(u, d, k) ==
    { i \in 1..Len(reminder_logs) :
        reminder_logs[i] = [user_id |-> u, send_date |-> d, kind |-> k] }

Handled(r, u) == r.ev[u] # {}

\* The window as the clock alone decides it: the user has a class ending on
\* `day` and last_end - 30min <= t <= last_end - 25min.
InWindowByClock(u, day, t) ==
    LET last_end == last_class_end(u, day)
    IN  /\ ~last_end.isNone
        /\ last_end.min - WindowLead <= t
        /\ t <= last_end.min - WindowLead + WindowWidth

\* C1: with invocations that never overlap (SeqSpec), at most one email of
\* each kind has been dispatched to each user for each day, whatever the
\* order of the invocations and the outcomes of the sends.
C1_AtMostOneEmail ==
    \A u \in Users, d \in Days, k \in Kinds : outbox[<<u, d, k>>] <= 1

\* C1 witness: a second daily invocation of the same day has skipped a user
\* the first one sent to.
C1_Witness ==
    \E u \in Users :
        /\ inv["p1"].job = "daily"
        /\ runs = 2
        /\ u \in inv["p1"].had
        /\ "already" \in inv["p1"].ev[u]
        /\ outbox[<<u, inv["p1"].today, "daily">>] = 1

\* C2: in every reachable state, overlapping invocations included,
\* email_notifications holds at most one row per (user_id, send_date) and
\* reminder_logs at most one row per (user_id, send_date, kind).
C2_UniqueRows ==
    /\ \A u \in Users, d \in Days : Cardinality(DailyRows(u, d)) <= 1
    /\ \A u \in Users, d \in Days, k \in Kinds : Cardinality(ReminderRows(u, d, k)) <= 1

\* C2 witness: an overlapping invocation tried to insert a row that was there
\* and was refused.
C2_Witness ==
    \E s \in Slots, u \in Users :
        /\ inv[s].exc = "UniqueViolation"
        /\ "insert_conflict" \in inv[s].ev[u]
        /\ Cardinality(DailyRows(u, inv[s].today)) = 1

BothDaily(d) ==
    \A s \in Slots : inv[s].job = "daily" /\ inv[s].today = d

\* C3 as stated: two overlapping daily invocations that both got past the
\* dedup check for the same user and day, once both are over, leave exactly
\* one record and exactly one dispatched email.
C3_ExactlyOneEmail ==
    \A u \in Users, d \in Days :
        ( /\ BothDaily(d)
          /\ \A s \in Slots : Finished(inv[s]) /\ "sent" \in inv[s].ev[u] )
        => /\ Cardinality(DailyRows(u, d)) = 1
           /\ outbox[<<u, d, "daily">>] = 1

\* C3 amended: at most one record per tuple is ever persisted, and exactly
\* one once an invocation whose send succeeded is past its INSERT; but every
\* overlapping invocation whose send succeeds dispatches its own email, so
\* up to one email per concurrent invocation goes out, two when both succeed.
C3_OneRecordTwoEmails ==
    \A u \in Users, d \in Days :
        /\ Cardinality(DailyRows(u, d)) <= 1
        /\ outbox[<<u, d, "daily">>] <= Cardinality(Slots)
        /\ \A s \in Slots :
              ( /\ inv[s].job = "daily" /\ inv[s].today = d
                /\ "sent" \in inv[s].ev[u]
                /\ ~(inv[s].pc = "d_insert" /\ CurUser(inv[s]) = u) )
              => Cardinality(DailyRows(u, d)) = 1
        /\ ( BothDaily(d) /\ \A s \in Slots : "sent" \in inv[s].ev[u] )
              => outbox[<<u, d, "daily">>] = 2

\* C3 witness: both overlapping invocations sent to the same user, one row
\* is there and the other INSERT was refused.
C3_Witness ==
    \E u \in Users, d \in Days :
        /\ BothDaily(d)
        /\ \A s \in Slots : Finished(inv[s]) /\ "sent" \in inv[s].ev[u]
        /\ outbox[<<u, d, "daily">>] = 2
        /\ Cardinality(DailyRows(u, d)) = 1
        /\ \E s \in Slots : inv[s].exc = "UniqueViolation"

\* C4 as stated: a failure while handling one user (location search,
\* geocoding, routing, email send) never aborts the invocation: when the
\* invocation is over, every user of its iteration order has been handled.
C4_FailureNeverAborts ==
    \A s \in Slots :
        ( /\ Finished(inv[s])
          /\ \E u \in Users : inv[s].ev[u] \cap {"route_raised", "send_failed"} # {} )
        => \A u \in Users : Handled(inv[s], u)

\* C5 as stated: the return job takes a user past the window check exactly
\* when the user has a class ending today and
\* last_end - 30min <= now <= last_end - 25min.
C5_WindowIff ==
    \A s \in Slots, u \in Users :
        ( inv[s].job = "return" /\ Handled(inv[s], u) )
        => ( "passed" \in inv[s].ev[u]
             <=> InWindowByClock(u, inv[s].today, inv[s].started) )

\* C6 as stated: for a user whose last class today ends at 14:00, the tick
\* at 13:30 does not take the user past the window check, the tick at 13:31
\* does, and the tick at 13:36 does not.
C6_Example ==
    \A s \in Slots, u \in Users :
        ( /\ inv[s].job = "return"
          /\ Handled(inv[s], u)
          /\ last_class_end(u, 0) = Naive(Clock(0, 14, 0)) )
        => /\ inv[s].started = Clock(0, 13, 30) => "passed" \notin inv[s].ev[u]
           /\ inv[s].started = Clock(0, 13, 31) => "passed" \in inv[s].ev[u]
           /\ inv[s].started = Clock(0, 13, 36) => "passed" \notin inv[s].ev[u]

\* C7 as stated: a tick falls inside the window of every user with a class
\* ending today, so once the invocation of a tick inside the window is over,
\* a user who had no return record (the email service being configured and
\* accepting) has been sent the return reminder of that day.
C7_ReminderSent ==
    \A s \in Slots, u \in Users :
        ( /\ inv[s].job = "return"
          /\ Finished(inv[s])
          /\ InWindowByClock(u, inv[s].today, inv[s].started)
          /\ u \notin inv[s].had
          /\ brevo_configured )
        => outbox[<<u, inv[s].today, "return">>] >= 1

\* C8: the daily job skips a user with zero classes starting today entirely:
\* the loop iteration for the user calls no external service (no resolution,
\* routing or send), writes no row, dispatches nothing and moves on; the
\* invocation does nothing else for that user.
C8_EmptyDaySkipped ==
    /\ [](\A s \in Slots, u \in Users :
            "no_classes" \in inv[s].ev[u] => inv[s].ev[u] = {"no_classes"})
    /\ [][\A s \in Slots :
            ( /\ inv[s].pc = "d_loop"
              /\ inv'[s] # inv[s]
              /\ classes_for_day(CurUser(inv[s]), inv[s].today) = {} )
            => /\ inv'[s].ev[CurUser(inv[s])] \subseteq {"already", "no_classes"}
               /\ inv'[s].calls = {}
               /\ inv'[s].idx = inv[s].idx + 1
               /\ inv'[s].pc \in {"d_loop", "done"}
               /\ email_notifications' = email_notifications
               /\ reminder_logs' = reminder_logs
               /\ outbox' = outbox]_vars

\* C8 witness: a daily invocation has skipped a user without classes today
\* and gone on, with nothing dispatched and no row for that user.
C8_Witness ==
    \E s \in Slots, u \in Users :
        /\ inv[s].job = "daily"
        /\ classes_for_day(u, inv[s].today) = {}
        /\ inv[s].ev[u] = {"no_classes"}
        /\ outbox[<<u, inv[s].today, "daily">>] = 0
        /\ DailyRows(u, inv[s].today) = {}
        /\ \E v \in Users : v # u /\ "recorded" \in inv[s].ev[v]

\* C9: once a daily invocation has sent to a user and is past its INSERT for
\* that user, the daily row for (user, today) is there; and a daily invocation
\* that starts when the row is there dispatches nothing to that user.
C9_RecordedThenSilent ==
    \A s \in Slots, u \in Users :
        inv[s].job = "daily" =>
            /\ ( /\ "sent" \in inv[s].ev[u]
                 /\ ~(inv[s].pc = "d_insert" /\ CurUser(inv[s]) = u) )
               => already_daily(u, inv[s].today)
            /\ u \in inv[s].had =>
                 inv[s].ev[u] \cap {"passed", "sent", "recorded"} = {}

\* C9 witness: a user with classes today was sent the digest and recorded,
\* and a later invocation of the same day, over by now, found the row and
\* sent nothing.
C9_Witness ==
    \E s \in Slots, u \in Users :
        /\ inv[s].job = "daily"
        /\ inv[s].pc = "done"
        /\ u \in inv[s].had
        /\ inv[s].ev[u] = {"already"}
        /\ classes_for_day(u, inv[s].today) # {}
        /\ outbox[<<u, inv[s].today, "daily">>] = 1
        /\ Cardinality(DailyRows(u, inv[s].today)) = 1

\* C10: when the send for a user fails, the step writes no row and goes on
\* to the next user, and the invocation never inserts for that user.  (The
\* send sits at pc "d_send"; no return invocation gets as far as its send.)
C10_FailedSendNoRecord ==
    /\ [](\A s \in Slots, u \in Users :
            "send_failed" \in inv[s].ev[u] =>
                inv[s].ev[u] \cap {"sent", "recorded", "insert_conflict"} = {})
    /\ [][\A s \in Slots :
            ( /\ inv[s].pc = "d_send"
              /\ inv'[s] # inv[s]
              /\ "send_failed" \in inv'[s].ev[CurUser(inv[s])] )
            => /\ inv'[s].idx = inv[s].idx + 1
               /\ inv'[s].pc \in {"d_loop", "done"}
               /\ email_notifications' = email_notifications
               /\ reminder_logs' = reminder_logs
               /\ outbox' = outbox]_vars

\* C10 witness: the send for the first user failed, no row was written for
\* that user, and the invocation went on to record the next user.
C10_Witness ==
    \E s \in Slots, u, v \in Users :
        /\ inv[s].job = "daily"
        /\ inv[s].users[1] = u /\ inv[s].users[2] = v
        /\ "send_failed" \in inv[s].ev[u]
        /\ DailyRows(u, inv[s].today) = {}
        /\ "recorded" \in inv[s].ev[v]

\* C11: every row of a dedup table stands for an email that was dispatched
\* for its tuple: a row for (user, day) in email_notifications means at
\* least one daily email went out for it, and likewise for reminder_logs.
C11_RecordMeansEmail ==
    /\ \A u \in Users, d \in Days :
          DailyRows(u, d) # {} => outbox[<<u, d, "daily">>] >= 1
    /\ \A u \in Users, d \in Days :
          ReminderRows(u, d, "return") # {} => outbox[<<u, d, "return">>] >= 1

\* C12: an INSERT refused by the UNIQUE constraint is taken as "already
\* sent": the invocation does not end with an exception and goes on to the
\* users after the refused one.
C12_ConflictIsAlreadySent ==
    \A s \in Slots, u \in Users :
        "insert_conflict" \in inv[s].ev[u] =>
            /\ inv[s].pc # "raised"
            /\ inv[s].exc = "none"

\* "HH:MM": two digits, a colon, two digits.
HHMM(hh, mm) ==
    << Digits[(hh \div 10) + 1], Digits[(hh % 10) + 1], ":",
       Digits[(mm \div 10) + 1], Digits[(mm % 10) + 1] >>

IsHHMM(a) ==
    /\ ~a.isNone
    /\ Len(a.chars) = 5
    /\ a.chars[3] = ":"
    /\ \A i \in {1, 2, 4, 5} : isdigit(<< a.chars[i] >>)

\* The number a two-digit field shows.
TwoDigits(c1, c2) ==
    CHOOSE n \in 0..99 :
        c1 = Digits[(n \div 10) + 1] /\ c2 = Digits[(n % 10) + 1]

HourOf(a) == TwoDigits(a.chars[1], a.chars[2])
MinuteOf(a) == TwoDigits(a.chars[4], a.chars[5])

\* C16: for an arrival_time "HH:MM" with 0 <= HH <= 23 and 0 <= MM <= 59,
\* build_arrival_datetime returns HH:MM of the current civil date moved by
\* exactly -10 minutes for "earlier" and +10 minutes for "later"; for an
\* absent arrival_time it returns None.
C16_ArrivalShift ==
    (call.fn = "build_arrival_datetime" /\ call.result # Pending) =>
        /\ call.arrival_time_str.isNone => call.result = Returned(None)
        /\ ( /\ IsHHMM(call.arrival_time_str)
             /\ HourOf(call.arrival_time_str) <= 23
             /\ MinuteOf(call.arrival_time_str) <= 59 )
           => LET wall == Clock(DateOf(now), HourOf(call.arrival_time_str),
                                MinuteOf(call.arrival_time_str))
              IN  /\ call.timing_pref = "earlier"
                       => call.result = Returned(Aware(wall - 10))
                  /\ call.timing_pref = "later"
                       => call.result = Returned(Aware(wall + 10))

\* C16 witness: "08:30" gave 08:20 of the current date for "earlier", or
\* 08:40 for "later".
C16_Witness ==
    /\ call.fn = "build_arrival_datetime"
    /\ call.arrival_time_str = Str(HHMM(8, 30))
    /\ \/ /\ call.timing_pref = "earlier"
          /\ call.result = Returned(Aware(Clock(DateOf(now), 8, 20)))
       \/ /\ call.timing_pref = "later"
          /\ call.result = Returned(Aware(Clock(DateOf(now), 8, 40)))

\* The texts the claim calls invalid: a character that is neither a digit
\* nor the colon, or an empty part (non-numeric parts); not exactly one
\* colon (wrong number of parts); "HH:MM" with HH > 23 or MM > 59.
InvalidArrivalTime(a) ==
    \/ a.isNone
    \/ \E i \in 1..Len(a.chars) : a.chars[i] # ":" /\ ~isdigit(<< a.chars[i] >>)
    \/ Cardinality({ i \in 1..Len(a.chars) : a.chars[i] = ":" }) # 1
    \/ a.chars[1] = ":" \/ a.chars[Len(a.chars)] = ":"
    \/ /\ IsHHMM(a)
       /\ HourOf(a) > 23 \/ MinuteOf(a) > 59

\* C17: for every arrival_time that is absent or not a valid HH:MM,
\* build_arrival_datetime returns None and raises nothing.
C17_InvalidYieldsAbsent ==
    ( /\ call.fn = "build_arrival_datetime"
      /\ call.result # Pending
      /\ InvalidArrivalTime(call.arrival_time_str) )
    => call.result = Returned(None)

\* What is behind the last colon of a text (all of it when it has none).
LastSegment(chars) ==
    LET colons == { i \in 1..Len(chars) : chars[i] = ":" }
    IN  IF colons = {} THEN chars
        ELSE SubSeq(chars, Max(colons) + 1, Len(chars))

AllDigits(chars) ==
    /\ Len(chars) >= 1
    /\ { chars[i] : i \in 1..Len(chars) } \subseteq { Digits[k] : k \in 1..Len(Digits) }

\* A field value whose final segment is non-empty and all digits.
UsableId(v) == ~v.isNone /\ v.isStr /\ AllDigits(LastSegment(v.chars))

\* The fields in priority order: ibnr, id, station.id.
StopIdFields(item) ==
    << item.ibnr, item.id, IF item.station.isNone THEN None ELSE item.station.id >>

ExpectedStopId(item) ==
    LET f == StopIdFields(item)
        usable == { i \in 1..Len(f) : UsableId(f[i]) }
    IN  IF usable = {} THEN None
        ELSE Str(LastSegment(f[CHOOSE i \in usable : \A j \in usable : i <= j].chars))

\* C18: normalize_stop_id returns the final colon-delimited segment of the
\* first of ibnr, id, station.id whose final segment is non-empty and all
\* digits, and None when no field has one.
C18_StopId ==
    (call.fn = "normalize_stop_id" /\ call.result # Pending) =>
        call.result = Returned(ExpectedStopId(call.item))

\* C18 witness: ibnr "a9" was rejected and id ":9" gave "9".
C18_Witness ==
    /\ call.fn = "normalize_stop_id"
    /\ call.item.ibnr = Str(<< "a", "9" >>)
    /\ call.item.id = Str(<< ":", "9" >>)
    /\ call.result = Returned(Str(<< "9" >>))

\* The coordinate a candidate exposes: top-level first, else nested.
ExpectedCoords(item) ==
    IF ~item.latlon.isNone THEN item.latlon
    ELSE IF item.location.isNone THEN None
    ELSE item.location.latlon

CandidatesWithId(items) ==
    { i \in 1..Len(items) : ~ExpectedStopId(items[i]).isNone }

CandidatesWithCoords(items) ==
    { i \in 1..Len(items) : ~ExpectedCoords(items[i]).isNone }

ResolveReturned ==
    /\ call.fn = "resolve_location"
    /\ call.result # Pending
    /\ call.locations.raised = "none"

\* C19: resolve_location returns the first candidate, in list order, that
\* yields a stop id, whatever coordinate-only candidates precede it; a
\* coordinate-only candidate (the first of them) is returned only when no
\* candidate yields an id.
C19_IdBeforeCoords ==
    ResolveReturned =>
        LET items == call.locations.value
            ids == CandidatesWithId(items)
            coords == CandidatesWithCoords(items)
        IN  /\ ids # {} =>
                 LET k == CHOOSE i \in ids : \A j \in ids : i <= j
                 IN  /\ call.result.raised = "none"
                     /\ call.result.value.id = ExpectedStopId(items[k])
                     /\ call.result.value.coords = ExpectedCoords(items[k])
            /\ (ids = {} /\ coords # {}) =>
                 LET k == CHOOSE i \in coords : \A j \in coords : i <= j
                 IN  /\ call.result.raised = "none"
                     /\ call.result.value.id = None
                     /\ call.result.value.coords = ExpectedCoords(items[k])

\* C19 witness: the first candidate had only a coordinate, the second a
\* stop id, and the second was returned.
C19_Witness ==
    /\ ResolveReturned
    /\ Len(call.locations.value) = 2
    /\ CandidatesWithId(call.locations.value) = {2}
    /\ 1 \in CandidatesWithCoords(call.locations.value)
    /\ call.result.value.id = ExpectedStopId(call.locations.value[2])
    /\ call.result.value.coords # ExpectedCoords(call.locations.value[1])

GeocoderAsked ==
    \E i \in 1..Len(call.result.calls) : call.result.calls[i] = "geocode"

\* C20: resolve_location asks the geocoder exactly when the transit search
\* answered and no candidate exposes an id or a coordinate; a geocoder
\* match gives a location with no id and the match's coordinate, no match
\* gives no id, no coordinate and the query as the name.
C20_GeocodeFallback ==
    (call.fn = "resolve_location" /\ call.result # Pending) =>
        /\ GeocoderAsked <=>
              /\ call.locations.raised = "none"
              /\ CandidatesWithId(call.locations.value) = {}
              /\ CandidatesWithCoords(call.locations.value) = {}
        /\ (GeocoderAsked /\ call.geocode.raised = "none") =>
              /\ call.result.raised = "none"
              /\ call.result.value.id = None
              /\ IF Len(call.geocode.value) = 0
                 THEN /\ call.result.value.coords = None
                      /\ call.result.value.name = call.query
                 ELSE call.result.value.coords =
                          LatLon(call.geocode.value[1].lat, call.geocode.value[1].lon)

\* C20 witness: the only candidate exposed neither id nor coordinate and the
\* geocoder had no match: no id, no coordinate, the query as the name.
C20_Witness ==
    /\ call.fn = "resolve_location"
    /\ call.result # Pending
    /\ call.locations.raised = "none"
    /\ Len(call.locations.value) = 1
    /\ GeocoderAsked
    /\ call.geocode = Returned(<< >>)
    /\ call.result.value = Location(None, call.query, None)

\* A search that finds nothing usable, with a geocoder that has no match.
FoundByNobody(locations, geocode) ==
    /\ locations.raised = "none"
    /\ CandidatesWithId(locations.value) = {}
    /\ CandidatesWithCoords(locations.value) = {}
    /\ geocode = Returned(<< >>)

\* Both searches answer and the arrival_time is absent, so that nothing but
\* the routing answer is left to decide the journey.
SearchesAnswer(sc) ==
    /\ sc.home_location
    /\ sc.home.raised = "none" /\ sc.campus.raised = "none"
    /\ sc.prefs.arrival_time.isNone

\* The two cases of the claim, as what the services answered.
NoRouteToOffer(sc) ==
    /\ SearchesAnswer(sc)
    /\ \/ sc.journeys = Returned(<< >>)
       \/ FoundByNobody(sc.home, sc.home_geocode)
       \/ FoundByNobody(sc.campus, sc.campus_geocode)

NoRouteScenarios == { sc \in RouteScenarios : NoRouteToOffer(sc) }

\* C13: when the routing request is answered with no itinerary, or an
\* endpoint resolves to neither id nor coordinate, the daily job neither
\* skips the user nor ends: it goes on to the send with no journey, the
\* email it sends has no route section, and after a successful send it
\* writes the record.
C13_NoRouteStillSent ==
    /\ [](\A s \in Slots :
            inv[s].route \in {"empty", "unresolved"} =>
                /\ inv[s].journey = "None"
                /\ inv[s].html = "classes"
                /\ "route_raised" \notin inv[s].ev[CurUser(inv[s])])
    /\ [][\A s \in Slots :
            ( /\ inv[s].pc = "d_loop"
              /\ inv'[s] # inv[s]
              /\ "passed" \in inv'[s].ev[CurUser(inv[s])] )
            => \A sc \in NoRouteScenarios :
                  inv'[s] = DailyRoute(Note([inv[s] EXCEPT !.calls = {}], "passed"), sc)
                  => /\ inv'[s].pc = "d_send"
                     /\ inv'[s].idx = inv[s].idx
                     /\ inv'[s].route \in {"empty", "unresolved"}]_vars
    /\ [][\A s \in Slots :
            ( /\ inv[s].pc = "d_send"
              /\ inv[s].route \in {"empty", "unresolved"}
              /\ "sent" \in inv'[s].ev[CurUser(inv[s])] )
            => /\ inv'[s].pc = "d_insert"
               /\ inv'[s].html = "classes"
               /\ outbox' = [outbox EXCEPT
                     ![<< CurUser(inv[s]), inv[s].today, "daily" >>] = @ + 1]]_vars
    /\ [][\A s \in Slots :
            ( /\ inv[s].pc = "d_insert"
              /\ inv[s].route \in {"empty", "unresolved"}
              /\ "sent" \in inv[s].ev[CurUser(inv[s])]
              /\ DailyRows(CurUser(inv[s]), inv[s].today) = {}
              /\ inv'[s] # inv[s] )
            => /\ email_notifications' =
                     Append(email_notifications,
                            [user_id |-> CurUser(inv[s]), send_date |-> inv[s].today])
               /\ "recorded" \in inv'[s].ev[CurUser(inv[s])]
               /\ inv'[s].pc \in {"d_loop", "done"}]_vars

\* C13 witness: the routing request was answered with no itinerary, and the
\* email without a route section has been sent and is about to be recorded.
C13_Witness ==
    \E s \in Slots :
        /\ inv[s].pc = "d_insert"
        /\ inv[s].route = "empty"
        /\ inv[s].html = "classes"
        /\ "sent" \in inv[s].ev[CurUser(inv[s])]
        /\ outbox[<< CurUser(inv[s]), inv[s].today, "daily" >>] = 1

\* C14: the two jobs are independent.  A step of a daily invocation leaves
\* reminder_logs and the return emails alone and a step of a return
\* invocation leaves email_notifications and the daily emails alone; the
\* daily job takes a user for already notified exactly when
\* email_notifications holds the row, whatever reminder_logs holds; the
\* return job never takes a user for already reminded because of a daily
\* row: what it does with a user follows from the user's classes alone.
C14_JobsIndependent ==
    /\ [][\A s \in Slots :
            inv'[s] # inv[s] =>
                /\ inv'[s].job = "daily" =>
                      /\ reminder_logs' = reminder_logs
                      /\ \A u \in Users, d \in Days :
                            outbox'[<<u, d, "return">>] = outbox[<<u, d, "return">>]
                /\ inv'[s].job = "return" =>
                      /\ email_notifications' = email_notifications
                      /\ \A u \in Users, d \in Days :
                            outbox'[<<u, d, "daily">>] = outbox[<<u, d, "daily">>]]_vars
    /\ [][\A s \in Slots :
            (inv[s].pc = "d_loop" /\ inv'[s] # inv[s]) =>
                ( "already" \in inv'[s].ev[CurUser(inv[s])]
                    <=> DailyRows(CurUser(inv[s]), inv[s].today) # {} )]_vars
    /\ [](\A s \in Slots, u \in Users :
            (inv[s].job = "return" /\ Handled(inv[s], u)) =>
                /\ "already" \notin inv[s].ev[u]
                /\ "no_class_ending" \in inv[s].ev[u]
                      <=> last_class_end(u, inv[s].today).isNone)

\* C14 witness: a return invocation has dealt with a user whose daily
\* record for today is in email_notifications, and was not held back by it.
C14_Witness ==
    \E s \in Slots, u \in Users :
        /\ inv[s].job = "return"
        /\ Handled(inv[s], u)
        /\ DailyRows(u, inv[s].today) # {}
        /\ "already" \notin inv[s].ev[u]
        /\ reminder_logs = << >>

\* C15: an invocation that ends after its email was sent and before the
\* record was written leaves no record, and a later invocation that finds
\* the user still eligible (no record, a class today) does not skip the
\* user and, when its send succeeds, dispatches one more email for the
\* same tuple.
C15_CrashThenDuplicate ==
    /\ [](\A u \in Users :
            {"sent", "crashed"} \subseteq inv["p1"].ev[u] =>
                /\ DailyRows(u, inv["p1"].today) = {}
                /\ outbox[<<u, inv["p1"].today, "daily">>] >= 1)
    /\ [][( /\ inv["p1"].pc = "d_loop"
            /\ inv'["p1"] # inv["p1"]
            /\ outbox[<< CurUser(inv["p1"]), inv["p1"].today, "daily" >>] >= 1
            /\ DailyRows(CurUser(inv["p1"]), inv["p1"].today) = {}
            /\ classes_for_day(CurUser(inv["p1"]), inv["p1"].today) # {} )
          => "passed" \in inv'["p1"].ev[CurUser(inv["p1"])]]_vars
    /\ [][( /\ inv["p1"].pc = "d_send"
            /\ "sent" \in inv'["p1"].ev[CurUser(inv["p1"])] )
          => outbox'[<< CurUser(inv["p1"]), inv["p1"].today, "daily" >>]
                = outbox[<< CurUser(inv["p1"]), inv["p1"].today, "daily" >>] + 1]_vars

\* C15 witness: a second email for a tuple that still has no record: the
\* first invocation ended between send and INSERT, the second has sent.
C15_Witness ==
    \E u \in Users :
        /\ inv["p1"].job = "daily"
        /\ runs = 2
        /\ "sent" \in inv["p1"].ev[u]
        /\ outbox[<<u, inv["p1"].today, "daily">>] = 2
        /\ DailyRows(u, inv["p1"].today) = {}

\* C21: build_journey sends the routing request by the pair of stop ids
\* exactly when both endpoints carry an id; otherwise it sends the request
\* by the pair of coordinates when both carry a coordinate, and when either
\* lacks one it returns None and sends no request.
C21_RequestMode ==
    (call.fn = "build_journey" /\ call.result # Pending) =>
        LET o == call.origin
            d == call.destination
            both_ids == ~o.id.isNone /\ ~d.id.isNone
            both_coords == ~o.coords.isNone /\ ~d.coords.isNone
            request == call.result.request
        IN  /\ both_ids =>
                 /\ ~request.isNone
                 /\ request.mode = "id"
                 /\ request.from = o.id /\ request.to = d.id
            /\ (~both_ids /\ both_coords) =>
                 /\ ~request.isNone
                 /\ request.mode = "coords"
                 /\ request.from = o.coords /\ request.to = d.coords
            /\ (~both_ids /\ ~both_coords) =>
                 /\ request.isNone
                 /\ call.result.raised = "none"
                 /\ call.result.value = None

\* C22: neither job calls an external service (transit search, geocoder,
\* routing, email) for a user it skips.  The step of a daily invocation for
\* a user whose daily row for today exists, or who has no class starting
\* today, calls nothing, dispatches nothing and moves on; the step of a
\* return invocation for a user with no class ending today, outside the
\* window, or with a return row for today, calls nothing and dispatches
\* nothing.
C22_SkippedNoCalls ==
    /\ [][\A s \in Slots :
            ( /\ inv[s].pc = "d_loop"
              /\ inv'[s] # inv[s]
              /\ \/ DailyRows(CurUser(inv[s]), inv[s].today) # {}
                 \/ classes_for_day(CurUser(inv[s]), inv[s].today) = {} )
            => /\ inv'[s].calls = {}
               /\ inv'[s].idx = inv[s].idx + 1
               /\ outbox' = outbox]_vars
    /\ [][\A s \in Slots :
            ( /\ inv[s].pc = "r_loop"
              /\ inv'[s] # inv[s]
              /\ \/ last_class_end(CurUser(inv[s]), inv[s].today).isNone
                 \/ ~InWindowByClock(CurUser(inv[s]), inv[s].today, inv[s].started)
                 \/ ReminderRows(CurUser(inv[s]), inv[s].today, "return") # {} )
            => /\ inv'[s].calls = {}
               /\ outbox' = outbox]_vars

\* C22 witness: a daily invocation has just skipped a user whose row for
\* today was there, with no service called, after skipping a user without
\* classes.
C22_Witness ==
    \E s \in Slots, u, v \in Users :
        /\ inv[s].job = "daily"
        /\ inv[s].pc \in {"d_loop", "done"}
        /\ inv[s].idx > 1
        /\ inv[s].users[inv[s].idx - 1] = u
        /\ inv[s].ev[u] = {"already"}
        /\ inv[s].ev[v] = {"no_classes"}
        /\ inv[s].calls = {}
        /\ DailyRows(u, inv[s].today) # {}

\* C23: through any sequence of startups and shutdowns at most one scheduler
\* is running; a running scheduler has exactly the two jobs, one daily digest
\* (cron, 07:00) and one return reminder (interval, 5 minutes), and is the
\* one the handle names; after on_shutdown no scheduler is running and the
\* handle is None.
C23_OneScheduler ==
    /\ Cardinality({ i \in 1..Len(schedulers) : schedulers[i].running }) <= 1
    /\ \A i \in 1..Len(schedulers) :
          schedulers[i].running =>
              /\ _scheduler = Handle(i)
              /\ Cardinality({ j \in 1..Len(schedulers[i].jobs) :
                                 schedulers[i].jobs[j] = DailyJob }) = 1
              /\ Cardinality({ j \in 1..Len(schedulers[i].jobs) :
                                 schedulers[i].jobs[j] = ReturnJob }) = 1
              /\ Len(schedulers[i].jobs) = 2
    /\ [][on_shutdown =>
            /\ _scheduler' = None
            /\ \A i \in 1..Len(schedulers') : ~schedulers'[i].running]_vars

\* C23 witness: a startup, a shutdown and a startup again: the first
\* scheduler is stopped, the second is running and in the handle.
C23_Witness ==
    /\ Len(schedulers) = 2
    /\ ~schedulers[1].running
    /\ schedulers[2].running
    /\ _scheduler = Handle(2)

\* C24: notify_daily_test leaves email_notifications and reminder_logs as
\* they are, however often it is called, and the test emails it sent do not
\* count for the daily job: a user with classes today and no daily row is
\* not skipped, and a user is skipped as already served only when the row is
\* there.  (The return job decides on last_class_end alone.)
C24_TestLeavesDedup ==
    /\ [][(\E u \in Users : notify_daily_test(u)) =>
            /\ email_notifications' = email_notifications
            /\ reminder_logs' = reminder_logs]_vars
    /\ [][( /\ inv["p1"].pc = "d_loop"
            /\ inv'["p1"] # inv["p1"]
            /\ outbox[<<CurUser(inv["p1"]), inv["p1"].today, "test">>] >= 1 )
          => LET u == CurUser(inv["p1"])
                 d == inv["p1"].today
             IN  /\ "already" \in inv'["p1"].ev[u] <=> DailyRows(u, d) # {}
                 /\ (DailyRows(u, d) = {} /\ classes_for_day(u, d) # {})
                       => "passed" \in inv'["p1"].ev[u]]_vars

\* C24 witness: a test email went out for a user and day, and the scheduled
\* digest for the same user and day was sent and recorded.
C24_Witness ==
    \E u \in Users :
        /\ inv["p1"].job = "daily"
        /\ outbox[<<u, inv["p1"].today, "test">>] >= 1
        /\ outbox[<<u, inv["p1"].today, "daily">>] = 1
        /\ "recorded" \in inv["p1"].ev[u]
        /\ DailyRows(u, inv["p1"].today) # {}

\* C26: on every day on which a user has a class ending there is a minute of
\* that same day at which the window check of the return job finds the user
\* inside the window, also when the last class ends less than 30 minutes
\* after midnight.
C26_WindowOnTheDay ==
    \A u \in Users, d \in Days :
        ~last_class_end(u, d).isNone =>
            \E t \in Clock(d, 0, 0)..Clock(d, 23, 59) :
                ReturnWindow(last_class_end(u, d), Aware(t)) = "True"

====
